---- MODULE Spec2Model ----
(***************************************************************************)
(* Client bootstrap and workspace resolution of jira-assets-api-client:    *)
(* initAssetsApiClient (src/index.ts and the packaged variant that follows *)
(* the prebuild script in src/prebuild.ts), discoverWorkspaceId,           *)
(* extractInstanceFromUrl, configureClient and the fallback interceptor.   *)
(*                                                                         *)
(* JavaScript strings are sequences of one-character strings, so that      *)
(* includes / replace / match are computed character by character.         *)
(* `undefined` is the one-element sequence Undef, which no string equals.  *)
(***************************************************************************)
EXTENDS Integers, Sequences, FiniteSets, TLC

\* ------------------------------------------------------------------ strings

S(s) == [i \in 1..Len(s) |-> SubSeq(s, i, i)]

Undef == <<"undefined">>

\* JavaScript truthiness of a value that is a string or undefined
Truthy(v) == v # Undef /\ v # <<>>

\* a || b
OrElse(a, b) == IF Truthy(a) THEN a ELSE b

\* destructuring default: the default applies only when the property is undefined
Dflt(v, d) == IF v = Undef THEN d ELSE v

\* p occurs in s at position i
MatchAt(p, s, i) ==
  /\ i >= 1
  /\ i + Len(p) - 1 <= Len(s)
  /\ SubSeq(s, i, i + Len(p) - 1) = p

\* String.prototype.indexOf, 1-based, 0 when p does not occur
IndexOf(s, p) ==
  LET hits == {i \in 1..(Len(s) + 1) : MatchAt(p, s, i)}
  IN  IF hits = {} THEN 0 ELSE CHOOSE i \in hits : \A j \in hits : i <= j

\* String.prototype.includes
Includes(s, p) == IndexOf(s, p) # 0

\* String.prototype.replace with a string pattern: the first occurrence only
\* (the replacement strings used here contain no "$" pattern)
Replace(s, p, r) ==
  LET i == IndexOf(s, p)
  IN  IF i = 0 THEN s
      ELSE SubSeq(s, 1, i - 1) \o r \o SubSeq(s, i + Len(p), Len(s))

HttpsScheme == S("https://")
AtlassianNet == S(".atlassian.net")
ApiHost == S("https://api.atlassian.com")
ApiHostName == S("api.atlassian.com")
DefaultBaseUrl == S("https://api.atlassian.com/assets")
DefaultSpecFile == S("assets-openapi.json")
DefaultOutputDir == S("src/generated")

\* `https://${instance}.atlassian.net`
InstanceHost(instance) == HttpsScheme \o instance \o AtlassianNet

\* `https://api.atlassian.com/jsm/insight/workspace/${resolvedWorkspaceId}/v1`
WorkspaceBase(w) == S("https://api.atlassian.com/jsm/insight/workspace/") \o w \o S("/v1")

\* `https://${instance}.atlassian.net/rest/servicedeskapi/insight/workspace`
workspaceEndpoint(instance) ==
  InstanceHost(instance) \o S("/rest/servicedeskapi/insight/workspace")

\* length of the longest run of characters other than "." that starts at i
RECURSIVE NonDotRun(_, _)
NonDotRun(s, i) ==
  IF i > Len(s) \/ s[i] = "." THEN 0 ELSE 1 + NonDotRun(s, i + 1)

\* url.match(/https:\/\/([^.]+)\.atlassian\.net/): the leftmost position where
\* "https://" is followed by a non-empty dot-free run and ".atlassian.net".
\* [^.]+ cannot stop short of the run's end, because the next character must be "."
RegexMatchAt(url, i) ==
  LET g == i + Len(HttpsScheme)
      n == NonDotRun(url, g)
  IN  /\ MatchAt(HttpsScheme, url, i)
      /\ n >= 1
      /\ MatchAt(AtlassianNet, url, g + n)

\* extractInstanceFromUrl with the group (.+) in place of ([^.]+)
extractInstanceAcrossDots(url) ==
  LET i == IndexOf(url, HttpsScheme)
      g == i + Len(HttpsScheme)
      ends == {k \in 1..Len(url) : k > g /\ MatchAt(AtlassianNet, url, k)}
  IN  IF i = 0 \/ ends = {} THEN Undef
      ELSE SubSeq(url, g, (CHOOSE k \in ends : \A j \in ends : j <= k) - 1)

extractInstanceFromUrl(url) ==
  LET hits == {i \in 1..Len(url) : RegexMatchAt(url, i)}
  IN  IF hits = {} THEN Undef
      ELSE LET i == CHOOSE k \in hits : \A j \in hits : k <= j
               g == i + Len(HttpsScheme)
           IN  SubSeq(url, g, g + NonDotRun(url, g) - 1)

\* ------------------------------------------------------------------ base64

\* character codes of the characters that occur in the credentials
Ord(c) ==
  CASE c = ":" -> 58
    [] c = "@" -> 64
    [] c = "a" -> 97
    [] c = "b" -> 98
    [] c = "k" -> 107
    [] c = "t" -> 116
    [] c = "u" -> 117
    [] c = "0" -> 48
    [] c = "1" -> 49

B64Alphabet == S("ABCDEFGHIJKLMNOPQRSTUVWXYZabcdefghijklmnopqrstuvwxyz0123456789+/")

B64Char(n) == B64Alphabet[n + 1]

\* Buffer.from(str).toString('base64')
RECURSIVE Base64(_)
Base64(s) ==
  IF Len(s) = 0 THEN <<>>
  ELSE IF Len(s) = 1 THEN
    LET a == Ord(s[1])
    IN  <<B64Char(a \div 4), B64Char((a % 4) * 16), "=", "=">>
  ELSE IF Len(s) = 2 THEN
    LET a == Ord(s[1])
        b == Ord(s[2])
    IN  <<B64Char(a \div 4), B64Char((a % 4) * 16 + b \div 16),
          B64Char((b % 16) * 4), "=">>
  ELSE
    LET a == Ord(s[1])
        b == Ord(s[2])
        c == Ord(s[3])
    IN  <<B64Char(a \div 4), B64Char((a % 4) * 16 + b \div 16),
          B64Char((b % 16) * 4 + c \div 64), B64Char(c % 64)>>
        \o Base64(SubSeq(s, 4, Len(s)))

\* `Basic ${Buffer.from(`${email}:${apiToken}`).toString('base64')}`
BasicAuth(email, apiToken) == S("Basic ") \o Base64(email \o S(":") \o apiToken)

JsonType == S("application/json")

AuthHeaders(email, apiToken) ==
  [Authorization |-> BasicAuth(email, apiToken),
   ContentType   |-> JsonType,
   Accept        |-> JsonType]

\* ------------------------------------------------- configuration resolution

\* ResolveOptions with ASSETS_OUTPUT_DIR taking precedence over options.outputDir
ResolveOptionsEnvironmentFirst(o, e) ==
  LET baseUrl == Dflt(o.baseUrl, OrElse(e.ASSETS_BASE_URL, DefaultBaseUrl))
  IN  [baseUrl     |-> baseUrl,
       apiToken    |-> Dflt(o.apiToken, e.ASSETS_API_TOKEN),
       email       |-> Dflt(o.email, e.JIRA_EMAIL),
       instance    |-> Dflt(o.instance,
                            OrElse(e.JIRA_INSTANCE, extractInstanceFromUrl(baseUrl))),
       workspaceId |-> Dflt(o.workspaceId, e.JIRA_WORKSPACE_ID),
       specFile    |-> Dflt(o.specFile, OrElse(e.ASSETS_SPEC_FILE, DefaultSpecFile)),
       outputDir   |-> OrElse(e.ASSETS_OUTPUT_DIR, Dflt(o.outputDir, DefaultOutputDir)),
       regenerate  |-> o.regenerate]

\* const { baseUrl = ..., apiToken = ..., ... } = options
ResolveOptions(o, e) ==
  LET baseUrl == Dflt(o.baseUrl, OrElse(e.ASSETS_BASE_URL, DefaultBaseUrl))
  IN  [baseUrl     |-> baseUrl,
       apiToken    |-> Dflt(o.apiToken, e.ASSETS_API_TOKEN),
       email       |-> Dflt(o.email, e.JIRA_EMAIL),
       instance    |-> Dflt(o.instance,
                            OrElse(e.JIRA_INSTANCE, extractInstanceFromUrl(baseUrl))),
       workspaceId |-> Dflt(o.workspaceId, e.JIRA_WORKSPACE_ID),
       specFile    |-> Dflt(o.specFile, OrElse(e.ASSETS_SPEC_FILE, DefaultSpecFile)),
       outputDir   |-> Dflt(o.outputDir, OrElse(e.ASSETS_OUTPUT_DIR, DefaultOutputDir)),
       regenerate  |-> o.regenerate]

\* Validate without its first throw
ValidateWithoutTokenCheck(c) ==
  IF ~Truthy(c.email) THEN "EmailRequired" ELSE "ok"

\* Validate without its second throw
ValidateWithoutEmailCheck(c) ==
  IF ~Truthy(c.apiToken) THEN "ApiTokenRequired" ELSE "ok"

\* the two validation throws, in source order
Validate(c) ==
  IF ~Truthy(c.apiToken) THEN "ApiTokenRequired"
  ELSE IF ~Truthy(c.email) THEN "EmailRequired"
  ELSE "ok"

\* NeedsDiscovery without its instance test
NeedsDiscoveryIgnoringInstance(c) == ~Truthy(c.workspaceId)

\* NeedsDiscovery testing the workspace id against undefined only
NeedsDiscoveryStrictUndefined(c) == c.workspaceId = Undef /\ Truthy(c.instance)

\* if (!resolvedWorkspaceId && instance)
NeedsDiscovery(c) == ~Truthy(c.workspaceId) /\ Truthy(c.instance)

\* ------------------------------------------------------ workspace discovery

\* what axios.get settles with: a transport error carrying a message, or a
\* response whose data has a `values` list or lacks the field
AxiosError(m) == [kind |-> "error", message |-> m, hasValues |-> FALSE, values |-> <<>>]
Response(vals) == [kind |-> "response", message |-> <<>>, hasValues |-> TRUE, values |-> vals]
ResponseWithoutValues ==
  [kind |-> "response", message |-> <<>>, hasValues |-> FALSE, values |-> <<>>]
NoResponse == [kind |-> "none", message |-> <<>>, hasValues |-> FALSE, values |-> <<>>]

\* discoverWorkspaceId returning the last element of `values`
discoverWorkspaceIdLast(r) ==
  IF r.kind = "error"
  THEN [ok |-> FALSE, value |-> Undef,
        message |-> S("Failed to discover workspace ID: ") \o r.message]
  ELSE IF r.hasValues /\ Len(r.values) > 0
  THEN [ok |-> TRUE, value |-> r.values[Len(r.values)].workspaceId, message |-> <<>>]
  ELSE [ok |-> FALSE, value |-> Undef,
        message |-> S("No workspace found in the response")]

\* discoverWorkspaceId dropping the transport's message from the error it raises
discoverWorkspaceIdSwallowing(r) ==
  IF r.kind = "error"
  THEN [ok |-> FALSE, value |-> Undef,
        message |-> S("Failed to discover workspace ID")]
  ELSE IF r.hasValues /\ Len(r.values) > 0
  THEN [ok |-> TRUE, value |-> r.values[1].workspaceId, message |-> <<>>]
  ELSE [ok |-> FALSE, value |-> Undef,
        message |-> S("No workspace found in the response")]

\* discoverWorkspaceId, from the settled axios.get on
discoverWorkspaceId(r) ==
  IF r.kind = "error"
  THEN [ok |-> FALSE, value |-> Undef,
        message |-> S("Failed to discover workspace ID: ") \o r.message]
  ELSE IF r.hasValues /\ Len(r.values) > 0
  THEN [ok |-> TRUE, value |-> r.values[1].workspaceId, message |-> <<>>]
  ELSE [ok |-> FALSE, value |-> Undef,
        message |-> S("No workspace found in the response")]

\* --------------------------------------------------- client configuration

\* the generated module's OpenAPI object before anyone configured it; its BASE
\* comes from the downloaded specification and is opaque here
GeneratedBase == <<"generated-base">>

\* no header map yet
NoHeaders == [Authorization |-> Undef, ContentType |-> Undef, Accept |-> Undef]

FreshOpenAPI ==
  [BASE |-> GeneratedBase, WITH_CREDENTIALS |-> FALSE, CREDENTIALS |-> S("include"),
   HEADERS |-> NoHeaders, REQUEST_INTERCEPTORS |-> <<>>]

\* OpenAPI: {} of the mock client
EmptyOpenAPI ==
  [BASE |-> Undef, WITH_CREDENTIALS |-> FALSE, CREDENTIALS |-> Undef,
   HEADERS |-> NoHeaders, REQUEST_INTERCEPTORS |-> <<>>]

\* the interceptor closure is identified by the instance it captured
Interceptor(instance) == [instance |-> instance]

\* ConfigureInline letting a base URL other than the default win over the workspace id
ConfigureInlineBaseUrlWins(o, baseUrl, email, apiToken, instance, resolvedWorkspaceId) ==
  [BASE |-> IF Truthy(resolvedWorkspaceId) /\ baseUrl = DefaultBaseUrl
            THEN WorkspaceBase(resolvedWorkspaceId) ELSE baseUrl,
   WITH_CREDENTIALS |-> TRUE,
   CREDENTIALS |-> S("include"),
   HEADERS |-> AuthHeaders(email, apiToken),
   REQUEST_INTERCEPTORS |->
     IF Truthy(instance) /\ Truthy(resolvedWorkspaceId)
     THEN <<Interceptor(instance)>> ELSE o.REQUEST_INTERCEPTORS]

\* index.ts, body of `if (generatedClient.OpenAPI) { ... }`
ConfigureInline(o, baseUrl, email, apiToken, instance, resolvedWorkspaceId) ==
  [BASE |-> IF Truthy(resolvedWorkspaceId)
            THEN WorkspaceBase(resolvedWorkspaceId) ELSE baseUrl,
   WITH_CREDENTIALS |-> TRUE,
   CREDENTIALS |-> S("include"),
   HEADERS |-> AuthHeaders(email, apiToken),
   REQUEST_INTERCEPTORS |->
     IF Truthy(instance) /\ Truthy(resolvedWorkspaceId)
     THEN <<Interceptor(instance)>> ELSE o.REQUEST_INTERCEPTORS]

\* configureClient of the packaged variant, after its OpenAPI check
configureClient(o, baseUrl, email, apiToken, instance, resolvedWorkspaceId) ==
  [BASE |-> IF Truthy(resolvedWorkspaceId)
            THEN WorkspaceBase(resolvedWorkspaceId) ELSE baseUrl,
   WITH_CREDENTIALS |-> TRUE,
   CREDENTIALS |-> S("include"),
   HEADERS |-> AuthHeaders(email, apiToken),
   REQUEST_INTERCEPTORS |->
     IF Truthy(instance) /\ Truthy(resolvedWorkspaceId)
     THEN <<Interceptor(instance)>> ELSE o.REQUEST_INTERCEPTORS]

\* ------------------------------------------------------ fallback interceptor

\* RetryUrl with the two rewrites exchanged
RetryUrlExchanged(originalUrl, instance) ==
  IF Includes(originalUrl, ApiHostName)
  THEN Replace(originalUrl, InstanceHost(instance), ApiHost)
  ELSE Replace(originalUrl, ApiHost, InstanceHost(instance))

\* RetryUrl without its else branch: an instance URL is retried as it is
RetryUrlOneWay(originalUrl, instance) ==
  IF Includes(originalUrl, ApiHostName)
  THEN Replace(originalUrl, ApiHost, InstanceHost(instance))
  ELSE originalUrl

\* the catch branch of the interceptor: the URL of the retry
RetryUrl(originalUrl, instance) ==
  IF Includes(originalUrl, ApiHostName)
  THEN Replace(originalUrl, ApiHost, InstanceHost(instance))
  ELSE Replace(originalUrl, InstanceHost(instance), ApiHost)

\* ------------------------------------------------------------ input domains

MaxValues == 2

TokenOptions == {Undef, <<>>, S("tk")}
EmailOptions == {Undef, <<>>, S("a@b")}
InstanceOptions == {Undef, <<>>, S("acme")}
WorkspaceOptions == {Undef, <<>>, S("W9")}
AcmeBaseUrl == S("https://acme.atlassian.net/rest/assets/1.0")
BaseUrlOptions ==
  {Undef, <<>>, AcmeBaseUrl,
   S("http://acme.atlassian.net/rest"),
   S("https://eu.acme.atlassian.net/rest")}

\* every combination of options: the domain of the resolution claims
OptionRecords ==
  [baseUrl : BaseUrlOptions, apiToken : TokenOptions, email : EmailOptions,
   instance : InstanceOptions, workspaceId : WorkspaceOptions,
   specFile : {Undef}, outputDir : {Undef}, regenerate : {FALSE}]

Environments ==
  [ASSETS_BASE_URL : {Undef, S("https://corp.atlassian.net")},
   ASSETS_API_TOKEN : {Undef, S("t0")},
   JIRA_EMAIL : {Undef, S("b@a")},
   JIRA_INSTANCE : {Undef, S("corp")},
   JIRA_WORKSPACE_ID : {Undef, S("W7")},
   ASSETS_SPEC_FILE : {Undef},
   ASSETS_OUTPUT_DIR : {Undef}]

EmptyEnvironment ==
  [ASSETS_BASE_URL |-> Undef, ASSETS_API_TOKEN |-> Undef, JIRA_EMAIL |-> Undef,
   JIRA_INSTANCE |-> Undef, JIRA_WORKSPACE_ID |-> Undef,
   ASSETS_SPEC_FILE |-> Undef, ASSETS_OUTPUT_DIR |-> Undef]

\* the calls followed through the whole flow: credentials given, every
\* combination of base URL, instance and workspace id, two regenerating calls,
\* and one call for each empty or missing field
FullOptions(b, i, w, g) ==
  [baseUrl |-> b, apiToken |-> S("tk"), email |-> S("a@b"), instance |-> i,
   workspaceId |-> w, specFile |-> Undef, outputDir |-> Undef, regenerate |-> g]

CallOptions ==
  {FullOptions(b, i, w, FALSE) :
     b \in {Undef, AcmeBaseUrl}, i \in {Undef, S("acme")}, w \in {Undef, S("W9")}}
  \cup {FullOptions(Undef, S("acme"), S("W9"), TRUE),
        FullOptions(Undef, Undef, Undef, TRUE),
        [FullOptions(Undef, S("acme"), S("W9"), FALSE) EXCEPT !.apiToken = Undef],
        [FullOptions(Undef, S("acme"), S("W9"), FALSE) EXCEPT !.email = <<>>],
        FullOptions(Undef, S("acme"), <<>>, FALSE),
        FullOptions(Undef, <<>>, S("W9"), FALSE),
        FullOptions(<<>>, Undef, Undef, FALSE)}

CallEnvironments ==
  {EmptyEnvironment,
   [EmptyEnvironment EXCEPT !.JIRA_INSTANCE = S("corp")],
   [EmptyEnvironment EXCEPT !.JIRA_WORKSPACE_ID = S("W7")]}

\* the options and environments of the precedence claim: each of the seven
\* fields left out or given, each variable unset or set, and each field and
\* each variable once as the empty string
OptionFields ==
  {"baseUrl", "apiToken", "email", "instance", "workspaceId", "specFile", "outputDir"}

EnvironmentVariables ==
  {"ASSETS_BASE_URL", "ASSETS_API_TOKEN", "JIRA_EMAIL", "JIRA_INSTANCE",
   "JIRA_WORKSPACE_ID", "ASSETS_SPEC_FILE", "ASSETS_OUTPUT_DIR"}

PrecedenceOptions ==
  [baseUrl : {Undef, AcmeBaseUrl}, apiToken : {Undef, S("tk")},
   email : {Undef, S("a@b")}, instance : {Undef, S("acme")},
   workspaceId : {Undef, S("W9")}, specFile : {Undef, S("spec.json")},
   outputDir : {Undef, S("out")}, regenerate : {FALSE}]
  \cup {[FullOptions(Undef, Undef, Undef, FALSE) EXCEPT ![f] = <<>>] : f \in OptionFields}

PrecedenceEnvironments ==
  [ASSETS_BASE_URL : {Undef, S("https://corp.atlassian.net")},
   ASSETS_API_TOKEN : {Undef, S("t0")},
   JIRA_EMAIL : {Undef, S("b@a")},
   JIRA_INSTANCE : {Undef, S("corp")},
   JIRA_WORKSPACE_ID : {Undef, S("W7")},
   ASSETS_SPEC_FILE : {Undef, S("env-spec.json")},
   ASSETS_OUTPUT_DIR : {Undef, S("env-out")}]
  \cup {[EmptyEnvironment EXCEPT ![v] = <<>>] : v \in EnvironmentVariables}

\* the calls of two callers with different credentials, instances and
\* workspace ids, and a regenerating call that discovers its workspace id
IndependentOptions ==
  {FullOptions(Undef, S("acme"), S("W9"), FALSE),
   [FullOptions(Undef, S("corp"), S("W7"), FALSE)
      EXCEPT !.apiToken = S("t0"), !.email = S("b@a")],
   FullOptions(Undef, S("acme"), Undef, TRUE)}

\* the calls whose client a request is then sent through
FallbackOptions ==
  {FullOptions(Undef, S("acme"), S("W9"), FALSE),
   FullOptions(Undef, S("acme"), S("W9"), TRUE),
   FullOptions(AcmeBaseUrl, Undef, Undef, FALSE)}

\* elements of the discovery response's `values`
WorkspaceEntries == {[workspaceId |-> w] : w \in {Undef, S("W1"), S("W2")}}

ValueLists ==
  UNION {[1..n -> WorkspaceEntries] : n \in 0..MaxValues}

DiscoveryResponses ==
  {AxiosError(S("Network Error")),
   AxiosError(S("Request failed with status code 401")),
   ResponseWithoutValues}
    \cup {Response(v) : v \in ValueLists}

TransportErrors == {"ECONNRESET", "HTTP404"}

SpecUrl == S("https://dac-static.atlassian.com/cloud/assets/swagger.v3.json")

Get(url) == [method |-> "GET", url |-> url]

\* --------------------------------------------------------- fixGeneratedCode

\* String.prototype.replace with a /g pattern of literal text: every occurrence,
\* left to right, the search going on after each replacement
RECURSIVE ReplaceAll(_, _, _)
ReplaceAll(s, p, r) ==
  LET i == IndexOf(s, p)
  IN  IF i = 0 THEN s
      ELSE SubSeq(s, 1, i - 1) \o r
             \o ReplaceAll(SubSeq(s, i + Len(p), Len(s)), p, r)

AscFaulty == S("asc = \"Uses the Jira setting for sort order\"")

AscFixed ==
  S("asc = true // Default to true instead of \"Uses the Jira setting for sort order\"")

\* the replace of fixTypeErrors on the content of DefaultService.ts
fixTypeErrors(content) == ReplaceAll(content, AscFaulty, AscFixed)

Quotes == {"'", "\""}

\* path.extname (posix): trailing slashes are skipped, the extension runs from
\* the last "." of the last segment to its end, and it is empty when the
\* segment has no ".", starts with its only ".", or is ".."
extname(p) ==
  LET ends == {k \in 1..Len(p) : p[k] # "/"}
      e == IF ends = {} THEN 0 ELSE CHOOSE k \in ends : \A j \in ends : j <= k
      slashes == {k \in 1..e : p[k] = "/"}
      startPart == IF slashes = {} THEN 1
                   ELSE 1 + (CHOOSE k \in slashes : \A j \in slashes : j <= k)
      dots == {k \in startPart..e : p[k] = "."}
      startDot == IF dots = {} THEN 0 ELSE CHOOSE k \in dots : \A j \in dots : j <= k
  IN  IF e = 0 \/ dots = {} \/ startDot = startPart THEN <<>>
      ELSE IF p[startPart] = "." /\ startDot = e /\ startDot = startPart + 1 THEN <<>>
      ELSE SubSeq(p, startDot, e)

\* length of the longest run of characters other than quotes that starts at i
RECURSIVE NonQuoteRun(_, _)
NonQuoteRun(s, i) ==
  IF i > Len(s) \/ s[i] \in Quotes THEN 0 ELSE 1 + NonQuoteRun(s, i + 1)

\* /from ['"](\.[^'"]+)['"]/ matches at i: "from ", a quote, ".", one or more
\* characters other than quotes, a quote
FromMatchAt(s, i) ==
  LET n == NonQuoteRun(s, i + 7)
  IN  /\ MatchAt(S("from "), s, i)
      /\ i + 6 <= Len(s)
      /\ s[i + 5] \in Quotes
      /\ s[i + 6] = "."
      /\ n >= 1
      /\ i + 7 + n <= Len(s)

\* the leftmost match of the pattern at or after i, 0 when there is none
NextFromMatch(s, i) ==
  LET hits == {k \in i..Len(s) : FromMatchAt(s, k)}
  IN  IF hits = {} THEN 0 ELSE CHOOSE k \in hits : \A j \in hits : k <= j

\* AddJsExtensions appending ".js" whatever extension the path has
RECURSIVE AddJsExtensionsAlways(_, _)
AddJsExtensionsAlways(s, i) ==
  LET k == NextFromMatch(s, i)
      n == NonQuoteRun(s, k + 7)
      importPath == SubSeq(s, k + 6, k + 6 + n)
  IN  IF k = 0 THEN SubSeq(s, i, Len(s))
      ELSE SubSeq(s, i, k - 1)
             \o S("from '") \o importPath \o S(".js'")
             \o AddJsExtensionsAlways(s, k + 8 + n)

\* the content.replace of fixEsmCompatibility, from position i on: each match,
\* left to right, is replaced by what the callback returns
RECURSIVE AddJsExtensions(_, _)
AddJsExtensions(s, i) ==
  LET k == NextFromMatch(s, i)
      n == NonQuoteRun(s, k + 7)
      importPath == SubSeq(s, k + 6, k + 6 + n)
  IN  IF k = 0 THEN SubSeq(s, i, Len(s))
      ELSE SubSeq(s, i, k - 1)
             \o (IF extname(importPath) = <<>>
                 THEN S("from '") \o importPath \o S(".js'")
                 ELSE SubSeq(s, k, k + 7 + n))
             \o AddJsExtensions(s, k + 8 + n)

\* the generated sources: import and export clauses of the files under
\* outputDir, and the parameter default of DefaultService.ts
MaxImports == 2

MaxRuns == 2

Statement(q, p) == [quote |-> q, path |-> p]

ImportStatements ==
  {Statement("'", S(x)) :
     x \in {"./a", "./a.js", "../m/b", "./m/", "axios", ".", "./.h"}}
  \cup {Statement("\"", S("./a"))}

StatementLists(n) == UNION {[1..k -> ImportStatements] : k \in 0..n}

Render(st) == S("from ") \o <<st.quote>> \o st.path \o <<st.quote>> \o S(";")

RECURSIVE RenderAll(_)
RenderAll(sts) ==
  IF sts = <<>> THEN <<>> ELSE Render(Head(sts)) \o RenderAll(Tail(sts))

\* ---------------------------------------------------------------------- state

VARIABLES
  variant,               \* "index" (src/index.ts) or "packaged" (src/prebuild.ts, second half)
  env,                   \* process.env
  files,                 \* which of outputDir/index.ts and specFile exist
  heap,                  \* the OpenAPI object of each loaded module
  pc,                    \* position of the initAssetsApiClient call
  opts,                  \* the options record of the call
  cfg,                   \* the destructured constants of the call
  resolvedWorkspaceId,
  netLog,                \* requests issued by the call so far
  inflight,              \* what the pending axios.get of discovery settles with
  error,                 \* what the call rejected with
  warned,                \* the catch branch around discovery logged its warning
  client,                \* the handle the call resolved with
  req,                   \* a request passing through the client's interceptor
  held,                  \* a handle of an earlier call that its caller kept
  caught,                \* message of the error caught around discovery
  tree,                  \* the .ts files under outputDir that fixGeneratedCode works on
  build                  \* the run of the prebuild script and the files it touches

vars ==
  <<variant, env, files, heap, pc, opts, cfg, resolvedWorkspaceId, netLog,
    inflight, error, warned, client, req, held, caught, tree, build>>

NoOptions ==
  [baseUrl |-> Undef, apiToken |-> Undef, email |-> Undef, instance |-> Undef,
   workspaceId |-> Undef, specFile |-> Undef, outputDir |-> Undef,
   regenerate |-> FALSE]

NoClient == [module |-> "none", hasOpenAPI |-> FALSE]

NoRequest ==
  [state |-> "idle", originalUrl |-> <<>>, url |-> <<>>, instance |-> <<>>,
   attempts |-> <<>>, outcomes |-> <<>>, error |-> "none"]

\* no generated sources under consideration
NoTree ==
  [service |-> Undef, model |-> <<>>, runs |-> 0,
   previous |-> [service |-> Undef, model |-> <<>>],
   esmInput |-> [service |-> Undef, model |-> <<>>],
   esmWrote |-> {},
   source |-> [asc |-> FALSE, service |-> <<>>, model |-> <<>>]]

\* the prebuild script not started, in an empty working directory
NoBuild ==
  [pc |-> "idle", run |-> 0, steps |-> <<>>, tempDir |-> FALSE,
   finalDir |-> FALSE, spec |-> FALSE, tsconfig |-> FALSE, dist |-> FALSE,
   reported |-> FALSE, exitCode |-> -1]

\* no handle kept
NoHandle == [module |-> "none", config |-> EmptyOpenAPI]

\* the objects a handle's OpenAPI member can be: the OpenAPI export of the
\* module under outputDir, that of the module under dist/generated, the
\* literal of the mock client of the running call, and the literal of a mock
\* client whose handle a caller kept
Modules == {"generated", "dist", "mock", "kept"}

InitIn(environments) ==
  /\ variant \in {"index", "packaged"}
  /\ env \in environments
  /\ files \in [client : BOOLEAN, spec : BOOLEAN]
  /\ heap = [m \in Modules |->
               IF m \in {"mock", "kept"} THEN EmptyOpenAPI ELSE FreshOpenAPI]
  /\ pc = "idle"
  /\ opts = NoOptions
  /\ cfg = NoOptions
  /\ resolvedWorkspaceId = Undef
  /\ netLog = <<>>
  /\ inflight = NoResponse
  /\ error = "none"
  /\ warned = FALSE
  /\ client = NoClient
  /\ req = NoRequest
  /\ held = NoHandle
  /\ caught = Undef
  /\ tree = NoTree
  /\ build = NoBuild

Init == InitIn(CallEnvironments)

InitResolve == InitIn(Environments)

InitPrecedence == InitIn(PrecedenceEnvironments)

\* -------------------------------------------------------- initAssetsApiClient

\* where the call suspends next once the workspace id is settled: the
\* regeneration decision of each variant
ObtainPhase(v, c, f) ==
  IF v = "index"
  THEN IF c.regenerate \/ ~f.client
       THEN IF c.regenerate \/ ~f.spec THEN "downloading" ELSE "generating"
       ELSE "importing"
  ELSE IF c.regenerate THEN "downloading" ELSE "importing"

LogAfterObtain(phase, log) ==
  IF phase = "downloading" THEN Append(log, Get(SpecUrl)) ELSE log

\* The call runs from its entry to its first await: destructuring, validation,
\* and either the discovery request or the regeneration decision.
Call(o) ==
  /\ pc = "idle"
  /\ LET c == ResolveOptions(o, env)
         v == Validate(c)
         phase == ObtainPhase(variant, c, files)
     IN  /\ opts' = o
         /\ cfg' = c
         /\ resolvedWorkspaceId' = IF v = "ok" THEN c.workspaceId ELSE Undef
         /\ IF v # "ok"
            THEN /\ pc' = "failed"
                 /\ error' = v
                 /\ netLog' = <<>>
            ELSE IF NeedsDiscovery(c)
            THEN /\ pc' = "discovering"
                 /\ error' = "none"
                 /\ netLog' = <<Get(workspaceEndpoint(c.instance))>>
            ELSE /\ pc' = phase
                 /\ error' = "none"
                 /\ netLog' = LogAfterObtain(phase, <<>>)
  /\ inflight' = NoResponse
  /\ warned' = FALSE
  /\ client' = NoClient
  /\ caught' = Undef
  /\ UNCHANGED <<variant, env, files, heap, req, held, tree, build>>

\* the transport settles the discovery GET
Respond(r) ==
  /\ pc = "discovering"
  /\ inflight = NoResponse
  /\ inflight' = r
  /\ UNCHANGED <<variant, env, files, heap, pc, opts, cfg, resolvedWorkspaceId,
                 netLog, error, warned, client, req, held, caught, tree, build>>

\* DiscoverySettles without the try/catch: a discovery error rejects the call
DiscoverySettlesFatal ==
  /\ pc = "discovering"
  /\ inflight # NoResponse
  /\ LET d == discoverWorkspaceId(inflight)
         phase == ObtainPhase(variant, cfg, files)
     IN  /\ resolvedWorkspaceId' = IF d.ok THEN d.value ELSE resolvedWorkspaceId
         /\ warned' = FALSE
         /\ pc' = IF d.ok THEN phase ELSE "failed"
         /\ error' = IF d.ok THEN error ELSE "DiscoveryFailed"
         /\ netLog' = IF d.ok THEN LogAfterObtain(phase, netLog) ELSE netLog
         /\ caught' = caught
  /\ inflight' = NoResponse
  /\ UNCHANGED <<variant, env, files, heap, opts, cfg, client, req, held, tree, build>>

\* DiscoverySettles with one retry of the GET after a failure
DiscoverySettlesRetrying ==
  /\ pc = "discovering"
  /\ inflight # NoResponse
  /\ LET d == discoverWorkspaceId(inflight)
         phase == ObtainPhase(variant, cfg, files)
         retry == ~d.ok /\ Len(netLog) < 2
     IN  /\ resolvedWorkspaceId' = IF d.ok THEN d.value ELSE resolvedWorkspaceId
         /\ warned' = (~d.ok /\ ~retry)
         /\ caught' = IF d.ok \/ retry THEN Undef ELSE d.message
         /\ pc' = IF retry THEN "discovering" ELSE phase
         /\ netLog' = IF retry
                       THEN Append(netLog, Get(workspaceEndpoint(cfg.instance)))
                       ELSE LogAfterObtain(phase, netLog)
  /\ inflight' = NoResponse
  /\ UNCHANGED <<variant, env, files, heap, opts, cfg, error, client, req, held, tree, build>>

\* DiscoverySettles storing a discovered workspace id in options.workspaceId
DiscoverySettlesWritingBack ==
  /\ pc = "discovering"
  /\ inflight # NoResponse
  /\ LET d == discoverWorkspaceId(inflight)
         phase == ObtainPhase(variant, cfg, files)
     IN  /\ resolvedWorkspaceId' = IF d.ok THEN d.value ELSE resolvedWorkspaceId
         /\ opts' = IF d.ok THEN [opts EXCEPT !.workspaceId = d.value] ELSE opts
         /\ warned' = ~d.ok
         /\ caught' = IF d.ok THEN Undef ELSE d.message
         /\ pc' = phase
         /\ netLog' = LogAfterObtain(phase, netLog)
  /\ inflight' = NoResponse
  /\ UNCHANGED <<variant, env, files, heap, cfg, error, client, req, held, tree, build>>

\* discoverWorkspaceId returns or throws; the caller's try/catch keeps going
DiscoverySettles ==
  /\ pc = "discovering"
  /\ inflight # NoResponse
  /\ LET d == discoverWorkspaceId(inflight)
         phase == ObtainPhase(variant, cfg, files)
     IN  /\ resolvedWorkspaceId' = IF d.ok THEN d.value ELSE resolvedWorkspaceId
         /\ warned' = ~d.ok
         /\ caught' = IF d.ok THEN Undef ELSE d.message
         /\ pc' = phase
         /\ netLog' = LogAfterObtain(phase, netLog)
  /\ inflight' = NoResponse
  /\ UNCHANGED <<variant, env, files, heap, opts, cfg, error, client, req, held, tree, build>>

\* downloadAndSaveAssetsSpec settles; on success generateAssetsApiClient starts
DownloadSettles(ok) ==
  /\ pc = "downloading"
  /\ IF ok
     THEN /\ files' = [files EXCEPT !.spec = TRUE]
          /\ pc' = "generating"
          /\ error' = error
     ELSE /\ pc' = "failed"
          /\ error' = "DownloadFailed"
          /\ files' = files
  /\ UNCHANGED <<variant, env, heap, opts, cfg, resolvedWorkspaceId, netLog,
                 inflight, warned, client, req, held, caught, tree, build>>

\* GenerateSettles going back to the download when the generator fails
GenerateSettlesRedownloading(ok) ==
  /\ pc = "generating"
  /\ IF ok
     THEN /\ files' = [files EXCEPT !.client = TRUE]
          /\ pc' = "importing"
          /\ error' = error
     ELSE /\ pc' = "downloading"
          /\ error' = error
          /\ files' = files
  /\ UNCHANGED <<variant, env, heap, opts, cfg, resolvedWorkspaceId, netLog,
                 inflight, warned, client, req, held, caught, tree, build>>

\* generateAssetsApiClient settles; on success the import is started
GenerateSettles(ok) ==
  /\ pc = "generating"
  /\ IF ok
     THEN /\ files' = [files EXCEPT !.client = TRUE]
          /\ pc' = "importing"
          /\ error' = error
     ELSE /\ pc' = "failed"
          /\ error' = "GenerateFailed"
          /\ files' = files
  /\ UNCHANGED <<variant, env, heap, opts, cfg, resolvedWorkspaceId, netLog,
                 inflight, warned, client, req, held, caught, tree, build>>

\* ImportSettlesIndex with discoverWorkspaceId not awaited: the import may
\* settle and the module be configured while the discovery GET is pending
ImportSettlesIndexUnawaited(loaded, hasOpenAPI) ==
  /\ pc \in {"discovering", "importing"}
  /\ variant = "index"
  /\ IF ~loaded
     THEN /\ pc' = "failed"
          /\ error' = "ErrorConfiguring"
          /\ UNCHANGED <<heap, client>>
     ELSE /\ pc' = "ready"
          /\ error' = error
          /\ client' = [module |-> "generated", hasOpenAPI |-> hasOpenAPI]
          /\ heap' = IF hasOpenAPI
                     THEN [heap EXCEPT !["generated"] =
                             ConfigureInline(@, cfg.baseUrl, cfg.email, cfg.apiToken,
                                             cfg.instance, resolvedWorkspaceId)]
                     ELSE heap
  /\ UNCHANGED <<variant, env, files, opts, cfg, resolvedWorkspaceId, netLog,
                 inflight, warned, req, held, caught, tree, build>>

\* src/index.ts: the import (ESM, then require) settles and the module is
\* configured in place when it has an OpenAPI member
ImportSettlesIndex(loaded, hasOpenAPI) ==
  /\ pc = "importing"
  /\ variant = "index"
  /\ IF ~loaded
     THEN /\ pc' = "failed"
          /\ error' = "ErrorConfiguring"
          /\ UNCHANGED <<heap, client>>
     ELSE /\ pc' = "ready"
          /\ error' = error
          /\ client' = [module |-> "generated", hasOpenAPI |-> hasOpenAPI]
          /\ heap' = IF hasOpenAPI
                     THEN [heap EXCEPT !["generated"] =
                             ConfigureInline(@, cfg.baseUrl, cfg.email, cfg.apiToken,
                                             cfg.instance, resolvedWorkspaceId)]
                     ELSE heap
  /\ UNCHANGED <<variant, env, files, opts, cfg, resolvedWorkspaceId, netLog,
                 inflight, warned, req, held, caught, tree, build>>

\* packaged variant, regenerate branch: the regenerated module is imported and
\* configured; a failed import and a failed configuration are wrapped alike
ImportSettlesRegenerated(loaded, hasOpenAPI) ==
  /\ pc = "importing"
  /\ variant = "packaged"
  /\ cfg.regenerate
  /\ IF ~loaded \/ ~hasOpenAPI
     THEN /\ pc' = "failed"
          /\ error' = "FailedToImportRegenerated"
          /\ UNCHANGED <<heap, client>>
     ELSE /\ pc' = "ready"
          /\ error' = error
          /\ client' = [module |-> "generated", hasOpenAPI |-> TRUE]
          /\ heap' = [heap EXCEPT !["generated"] =
                        configureClient(@, cfg.baseUrl, cfg.email, cfg.apiToken,
                                        cfg.instance, resolvedWorkspaceId)]
  /\ UNCHANGED <<variant, env, files, opts, cfg, resolvedWorkspaceId, netLog,
                 inflight, warned, req, held, caught, tree, build>>

\* packaged variant: the pre-generated module is imported, or replaced by the
\* mock when the import fails; the shallow copy shares the module's OpenAPI
ImportSettlesPackaged(loaded, hasOpenAPI) ==
  /\ pc = "importing"
  /\ variant = "packaged"
  /\ ~cfg.regenerate
  /\ IF loaded /\ ~hasOpenAPI
     THEN /\ pc' = "failed"
          /\ error' = "ErrorConfiguring"
          /\ UNCHANGED <<heap, client>>
     ELSE LET m == IF loaded THEN "dist" ELSE "mock"
              o == IF loaded THEN heap["dist"] ELSE EmptyOpenAPI
          IN  /\ pc' = "ready"
              /\ error' = error
              /\ client' = [module |-> m, hasOpenAPI |-> TRUE]
              /\ heap' = [heap EXCEPT ![m] =
                            configureClient(o, cfg.baseUrl, cfg.email, cfg.apiToken,
                                            cfg.instance, resolvedWorkspaceId)]
  /\ UNCHANGED <<variant, env, files, opts, cfg, resolvedWorkspaceId, netLog,
                 inflight, warned, req, held, caught, tree, build>>

\* the caller is done with the settled call and drops the handle (a mock client
\* dies with it); a later call may follow
Return ==
  /\ pc \in {"ready", "failed"}
  /\ req.state = "idle"
  /\ pc' = "idle"
  /\ opts' = NoOptions
  /\ cfg' = NoOptions
  /\ resolvedWorkspaceId' = Undef
  /\ netLog' = <<>>
  /\ error' = "none"
  /\ warned' = FALSE
  /\ client' = NoClient
  /\ heap' = [heap EXCEPT !["mock"] = EmptyOpenAPI]
  /\ caught' = Undef
  /\ UNCHANGED <<variant, env, files, inflight, req, held, tree, build>>

\* the caller of a resolved call keeps the handle, with the configuration it
\* sees through it at that moment, and a later call may follow; the literal of
\* a kept mock client stays alive as an object of its own
KeepHandle ==
  /\ pc = "ready"
  /\ client.hasOpenAPI
  /\ req.state = "idle"
  /\ held = NoHandle
  /\ LET m == IF client.module = "mock" THEN "kept" ELSE client.module
     IN  /\ held' = [module |-> m, config |-> heap[client.module]]
         /\ heap' = IF client.module = "mock"
                     THEN [heap EXCEPT !["kept"] = heap["mock"],
                                       !["mock"] = EmptyOpenAPI]
                     ELSE heap
  /\ pc' = "idle"
  /\ opts' = NoOptions
  /\ cfg' = NoOptions
  /\ resolvedWorkspaceId' = Undef
  /\ netLog' = <<>>
  /\ error' = "none"
  /\ warned' = FALSE
  /\ client' = NoClient
  /\ caught' = Undef
  /\ UNCHANGED <<variant, env, files, inflight, req, tree, build>>

\* ------------------------------------------------- requests through the client

RequestPath == S("/object/1")

\* URLs a caller's request may carry
RequestUrls(base, instance) ==
  {base \o RequestPath,
   InstanceHost(instance) \o RequestPath,
   S("http://api.atlassian.com") \o RequestPath,
   S("https://example.org") \o RequestPath}

\* the interceptor is entered: originalUrl is saved and the request awaited
Request ==
  /\ pc = "ready"
  /\ client.hasOpenAPI
  /\ heap[client.module].REQUEST_INTERCEPTORS # <<>>
  /\ req.state = "idle"
  /\ LET o == heap[client.module]
         i == o.REQUEST_INTERCEPTORS[1].instance
     IN  \E u \in RequestUrls(o.BASE, i) :
           req' = [state |-> "first", originalUrl |-> u, url |-> u, instance |-> i,
                   attempts |-> <<u>>, outcomes |-> <<>>, error |-> "none"]
  /\ UNCHANGED <<variant, env, files, heap, pc, opts, cfg, resolvedWorkspaceId,
                 netLog, inflight, error, warned, client, held, caught, tree, build>>

\* the first await settles; a failure rewrites request.url and awaits again
FirstAttemptSettles(outcome) ==
  /\ req.state = "first"
  /\ IF outcome = "ok"
     THEN req' = [req EXCEPT !.state = "resolved", !.outcomes = Append(@, outcome)]
     ELSE LET u == RetryUrl(req.originalUrl, req.instance)
          IN  req' = [req EXCEPT !.state = "second", !.url = u,
                                 !.attempts = Append(@, u),
                                 !.outcomes = Append(@, outcome)]
  /\ UNCHANGED <<variant, env, files, heap, pc, opts, cfg, resolvedWorkspaceId,
                 netLog, inflight, error, warned, client, held, caught, tree, build>>

\* the second await settles; its failure leaves the interceptor as it is
SecondAttemptSettles(outcome) ==
  /\ req.state = "second"
  /\ IF outcome = "ok"
     THEN req' = [req EXCEPT !.state = "resolved", !.outcomes = Append(@, outcome)]
     ELSE req' = [req EXCEPT !.state = "rejected", !.outcomes = Append(@, outcome),
                             !.error = outcome]
  /\ UNCHANGED <<variant, env, files, heap, pc, opts, cfg, resolvedWorkspaceId,
                 netLog, inflight, error, warned, client, held, caught, tree, build>>

RequestDone ==
  /\ req.state \in {"resolved", "rejected"}
  /\ req' = NoRequest
  /\ UNCHANGED <<variant, env, files, heap, pc, opts, cfg, resolvedWorkspaceId,
                 netLog, inflight, error, warned, client, held, caught, tree, build>>

\* ------------------------------------------------------ the build-time tools

\* no initAssetsApiClient call is under way
NoCall ==
  /\ variant = "index"
  /\ env = EmptyEnvironment
  /\ files = [client |-> FALSE, spec |-> FALSE]
  /\ heap = [m \in Modules |->
               IF m \in {"mock", "kept"} THEN EmptyOpenAPI ELSE FreshOpenAPI]
  /\ pc = "idle"
  /\ opts = NoOptions
  /\ cfg = NoOptions
  /\ resolvedWorkspaceId = Undef
  /\ netLog = <<>>
  /\ inflight = NoResponse
  /\ error = "none"
  /\ warned = FALSE
  /\ client = NoClient
  /\ req = NoRequest
  /\ held = NoHandle
  /\ caught = Undef

\* outputDir holds models/A.ts and, maybe, services/DefaultService.ts, the
\* latter with or without the faulty parameter default
InitFix ==
  /\ NoCall
  /\ build = NoBuild
  /\ \E present \in BOOLEAN, asc \in BOOLEAN,
        svc \in StatementLists(1), mdl \in StatementLists(MaxImports) :
       tree = [NoTree EXCEPT
                 !.service = IF present
                             THEN (IF asc THEN AscFaulty ELSE <<>>) \o RenderAll(svc)
                             ELSE Undef,
                 !.model = RenderAll(mdl),
                 !.source = [asc |-> present /\ asc,
                             service |-> IF present THEN svc ELSE <<>>,
                             model |-> mdl]]

\* one run of fixGeneratedCode: fixTypeErrors, which rewrites DefaultService.ts
\* if it exists, then fixEsmCompatibility, which rewrites the files whose
\* content the replace changed
fixGeneratedCode ==
  /\ tree.runs < MaxRuns
  /\ LET typed == IF tree.service = Undef THEN Undef ELSE fixTypeErrors(tree.service)
         service == IF typed = Undef THEN Undef ELSE AddJsExtensions(typed, 1)
         model == AddJsExtensions(tree.model, 1)
     IN  tree' = [tree EXCEPT
                    !.service = service,
                    !.model = model,
                    !.runs = @ + 1,
                    !.previous = [service |-> tree.service, model |-> tree.model],
                    !.esmInput = [service |-> typed, model |-> tree.model],
                    !.esmWrote = {f \in {"service"} : service # typed}
                                   \cup {f \in {"model"} : model # tree.model}]
  /\ UNCHANGED <<variant, env, files, heap, pc, opts, cfg, resolvedWorkspaceId,
                 netLog, inflight, error, warned, client, req, held, caught, build>>

\* how often the prebuild script is run on one working directory
MaxBuilds == 2

\* the three steps of the script
BuildSteps == <<"download", "generate", "compile">>

Step(name, outcome) == [step |-> name, outcome |-> outcome]

\* downloadAndSaveAssetsSpec resolves, or downloadAssetsSpec or saveSpec throws
DownloadOutcomes == {"ok", "Error downloading API spec", "Error saving API spec"}

\* generateAssetsApiClient resolves, or rethrows what JSON.parse, generate or
\* createIndexFile threw
GenerateOutcomes == {"ok", "Error generating API client"}

\* execSync returns, or throws because tsc exited with a non-zero status
CompileOutcomes == {"ok", "Command failed"}

\* a working directory as an earlier run, finished or killed, may have left it
InitPrebuild ==
  /\ NoCall
  /\ tree = NoTree
  /\ \E tempDir \in BOOLEAN, finalDir \in BOOLEAN, spec \in BOOLEAN,
        tsconfig \in BOOLEAN, dist \in BOOLEAN :
       /\ dist => finalDir
       /\ build = [NoBuild EXCEPT !.tempDir = tempDir, !.finalDir = finalDir,
                                  !.spec = spec, !.tsconfig = tsconfig,
                                  !.dist = dist]

\* the script is started: temp-generated is made sure to exist and the
\* download is begun
prebuildStarts ==
  /\ build.pc \in {"idle", "done", "exited"}
  /\ build.run < MaxBuilds
  /\ build' = [build EXCEPT !.pc = "downloading", !.run = @ + 1,
                            !.steps = <<>>, !.tempDir = TRUE,
                            !.reported = FALSE, !.exitCode = -1]
  /\ UNCHANGED <<variant, env, files, heap, pc, opts, cfg, resolvedWorkspaceId,
                 netLog, inflight, error, warned, client, req, held, caught, tree>>

\* downloadAndSaveAssetsSpec settles: the specification is saved and the
\* generation begun, or the outer catch ends the process
prebuildDownloads(outcome) ==
  /\ build.pc = "downloading"
  /\ build' =
       IF outcome = "ok"
       THEN [build EXCEPT !.pc = "generating", !.spec = TRUE,
                          !.steps = Append(@, Step("download", outcome))]
       ELSE [build EXCEPT !.pc = "exited", !.exitCode = 1,
                          !.steps = Append(@, Step("download", outcome))]
  /\ UNCHANGED <<variant, env, files, heap, pc, opts, cfg, resolvedWorkspaceId,
                 netLog, inflight, error, warned, client, req, held, caught, tree>>

\* generateAssetsApiClient settles; it downloads the specification itself
\* when the file is missing. On success dist/generated is made sure to exist,
\* tsconfig.generated.json is written and the compiler started
prebuildGenerates(again, outcome) ==
  /\ build.pc = "generating"
  /\ again \in (IF build.spec THEN {"none"} ELSE DownloadOutcomes)
  /\ LET downloads == IF again = "none" THEN <<>> ELSE <<Step("download", again)>>
         result == IF again \in {"none", "ok"} THEN outcome
                   ELSE "Error generating API client"
     IN  build' =
           IF result = "ok"
           THEN [build EXCEPT !.pc = "compiling", !.spec = TRUE,
                              !.finalDir = TRUE, !.tsconfig = TRUE,
                              !.steps = @ \o downloads \o <<Step("generate", result)>>]
           ELSE [build EXCEPT !.pc = "exited", !.exitCode = 1,
                              !.spec = @ \/ again = "ok",
                              !.steps = @ \o downloads \o <<Step("generate", result)>>]
  /\ UNCHANGED <<variant, env, files, heap, pc, opts, cfg, resolvedWorkspaceId,
                 netLog, inflight, error, warned, client, req, held, caught, tree>>

\* the compile step without the cleanup of its catch block
prebuildCompilesLeavingTsconfig(outcome, emitted) ==
  /\ build.pc = "compiling"
  /\ build' =
       IF outcome = "ok"
       THEN [build EXCEPT !.pc = "done", !.exitCode = 0, !.tsconfig = FALSE,
                          !.dist = TRUE, !.reported = TRUE,
                          !.steps = Append(@, Step("compile", outcome))]
       ELSE [build EXCEPT !.pc = "exited", !.exitCode = 1,
                          !.dist = @ \/ emitted,
                          !.steps = Append(@, Step("compile", outcome))]
  /\ UNCHANGED <<variant, env, files, heap, pc, opts, cfg, resolvedWorkspaceId,
                 netLog, inflight, error, warned, client, req, held, caught, tree>>

\* execSync('npx tsc -p tsconfig.generated.json') settles: tsconfig.generated.json
\* is unlinked either way; success is logged and the process ends normally, or
\* the error is rethrown to the outer catch. A failing tsc may have emitted.
prebuildCompiles(outcome, emitted) ==
  /\ build.pc = "compiling"
  /\ build' =
       IF outcome = "ok"
       THEN [build EXCEPT !.pc = "done", !.exitCode = 0, !.tsconfig = FALSE,
                          !.dist = TRUE, !.reported = TRUE,
                          !.steps = Append(@, Step("compile", outcome))]
       ELSE [build EXCEPT !.pc = "exited", !.exitCode = 1, !.tsconfig = FALSE,
                          !.dist = @ \/ emitted,
                          !.steps = Append(@, Step("compile", outcome))]
  /\ UNCHANGED <<variant, env, files, heap, pc, opts, cfg, resolvedWorkspaceId,
                 netLog, inflight, error, warned, client, req, held, caught, tree>>

\* the steps of a call after its entry
CallSteps ==
  \/ \E r \in DiscoveryResponses : Respond(r)
  \/ DiscoverySettles
  \/ \E ok \in BOOLEAN : DownloadSettles(ok)
  \/ \E ok \in BOOLEAN : GenerateSettles(ok)
  \/ \E loaded \in BOOLEAN, hasOpenAPI \in BOOLEAN : ImportSettlesIndex(loaded, hasOpenAPI)
  \/ \E loaded \in BOOLEAN, hasOpenAPI \in BOOLEAN : ImportSettlesRegenerated(loaded, hasOpenAPI)
  \/ \E loaded \in BOOLEAN, hasOpenAPI \in BOOLEAN : ImportSettlesPackaged(loaded, hasOpenAPI)

\* calls, one after another, on the modules the process has loaded
Next ==
  \/ \E o \in CallOptions : Call(o)
  \/ CallSteps
  \/ Return

Spec == Init /\ [][Next]_vars

\* the entry of a call, for every options record and environment
NextResolve ==
  \/ \E o \in OptionRecords : Call(o)
  \/ Return

SpecResolve == InitResolve /\ [][NextResolve]_vars

\* Spec with every pending network, generator and import call settling
SpecSettling == Init /\ [][Next]_vars /\ WF_vars(CallSteps)

\* the entry of a call, for the options and environments of the precedence claim
NextPrecedence ==
  \/ \E o \in PrecedenceOptions : Call(o)
  \/ Return

SpecPrecedence == InitPrecedence /\ [][NextPrecedence]_vars

\* a call and the requests then sent through its client
NextFallback ==
  \/ \E o \in FallbackOptions : Call(o)
  \/ CallSteps
  \/ Request
  \/ \E outcome \in {"ok"} \cup TransportErrors : FirstAttemptSettles(outcome)
  \/ \E outcome \in {"ok"} \cup TransportErrors : SecondAttemptSettles(outcome)
  \/ RequestDone

SpecFallback == Init /\ [][NextFallback]_vars

\* fixGeneratedCode, run once and again on the same outputDir
NextFix == fixGeneratedCode

SpecFix == InitFix /\ [][NextFix]_vars

\* the prebuild script, run once and again in the same working directory
NextPrebuild ==
  \/ prebuildStarts
  \/ \E outcome \in DownloadOutcomes : prebuildDownloads(outcome)
  \/ \E again \in {"none"} \cup DownloadOutcomes, outcome \in GenerateOutcomes :
       prebuildGenerates(again, outcome)
  \/ \E outcome \in CompileOutcomes, emitted \in BOOLEAN :
       prebuildCompiles(outcome, emitted)

SpecPrebuild == InitPrebuild /\ [][NextPrebuild]_vars

\* calls of several callers in one process, one of whom keeps the handle
NextIndependent ==
  \/ \E o \in IndependentOptions : Call(o)
  \/ CallSteps
  \/ Return
  \/ KeepHandle

SpecIndependent == Init /\ [][NextIndependent]_vars

TypeOK ==
  /\ pc \in {"idle", "discovering", "downloading", "generating", "importing",
             "ready", "failed"}
  /\ client.module \in Modules \cup {"none"}

\* ---------------------------------------------------------------- properties

CallActive == pc # "idle"

ValidationErrors == {"ApiTokenRequired", "EmailRequired"}

PassedValidation == CallActive /\ ~(pc = "failed" /\ error \in ValidationErrors)

\* an option given and non-empty, or left out with the environment variable set
Supplied(option, variable) ==
  Truthy(option) \/ (option = Undef /\ Truthy(variable))

\* C1: a call for which no API token is resolved (option undefined or empty and
\* ASSETS_API_TOKEN unset) has rejected with the token error by its first
\* suspension point, and it has issued no network request.
C1_NoTokenRejectsBeforeNetwork ==
  (CallActive /\ ~Truthy(opts.apiToken) /\ env.ASSETS_API_TOKEN = Undef)
    => (pc = "failed" /\ error = "ApiTokenRequired" /\ netLog = <<>>)

\* a token-less call that would otherwise have gone on to discovery
C1_Witness ==
  /\ pc = "failed"
  /\ error = "ApiTokenRequired"
  /\ opts.apiToken = <<>>
  /\ env.ASSETS_API_TOKEN = Undef
  /\ Truthy(cfg.email)
  /\ NeedsDiscovery(cfg)
  /\ netLog = <<>>

\* C2: a call for which a token is resolved but no email (option undefined or
\* empty and JIRA_EMAIL unset) has rejected with the email error, and it has
\* issued no network request.
C2_NoEmailRejectsBeforeNetwork ==
  (/\ CallActive
   /\ Supplied(opts.apiToken, env.ASSETS_API_TOKEN)
   /\ ~Truthy(opts.email)
   /\ env.JIRA_EMAIL = Undef)
    => (pc = "failed" /\ error = "EmailRequired" /\ netLog = <<>>)

\* a call with a token from the environment, no email, and discovery otherwise due
C2_Witness ==
  /\ pc = "failed"
  /\ error = "EmailRequired"
  /\ opts.apiToken = Undef
  /\ Truthy(env.ASSETS_API_TOKEN)
  /\ opts.email = Undef
  /\ env.JIRA_EMAIL = Undef
  /\ NeedsDiscovery(cfg)
  /\ netLog = <<>>

\* the OpenAPI object behind the handle of a settled call
ClientConfig == heap[client.module]

Configured == pc = "ready" /\ client.hasOpenAPI

IsDiscoveryRequest(r) ==
  r.method = "GET" /\ Includes(r.url, S("/rest/servicedeskapi/insight/workspace"))

DiscoveryRequested == \E k \in DOMAIN netLog : IsDiscoveryRequest(netLog[k])

\* a discovery response for which discoverWorkspaceId has nothing to return
FailureResponse(r) ==
  \/ r.kind = "error"
  \/ r.kind = "response" /\ (~r.hasValues \/ r.values = <<>>)

LaterStepErrors ==
  {"DownloadFailed", "GenerateFailed", "ErrorConfiguring", "FailedToImportRegenerated"}

\* C3: when the discovery request fails or answers with no `values` or an empty
\* list, the call logs its warning and goes on instead of rejecting; from then
\* on the workspace id stays unset, a rejection can only come from a later
\* step, and the configured client's BASE is the resolved baseUrl.
C3_DiscoveryFailureNonFatal ==
  /\ [][(pc = "discovering" /\ FailureResponse(inflight) /\ pc' # "discovering")
          => (warned' /\ pc' # "failed")]_vars
  /\ [](warned =>
          /\ ~Truthy(resolvedWorkspaceId)
          /\ (pc = "failed" => error \in LaterStepErrors)
          /\ (Configured => ClientConfig.BASE = cfg.baseUrl))

\* a call whose instance came out of its base URL, whose discovery failed, and
\* which resolved with that base URL configured
C3_Witness ==
  /\ Configured
  /\ warned
  /\ DiscoveryRequested
  /\ opts.baseUrl = AcmeBaseUrl
  /\ ClientConfig.BASE = AcmeBaseUrl

C4Template(w) == S("https://api.atlassian.com/jsm/insight/workspace/") \o w \o S("/v1")

\* C4: the configured client's BASE is the workspace-scoped URL of the workspace
\* id whenever one is known (from the option, from JIRA_WORKSPACE_ID, or
\* discovered), whatever baseUrl is, and it is the resolved baseUrl when none is.
C4_BaseUrlFromWorkspace ==
  Configured =>
    /\ (Truthy(opts.workspaceId) => ClientConfig.BASE = C4Template(opts.workspaceId))
    /\ (opts.workspaceId = Undef /\ Truthy(env.JIRA_WORKSPACE_ID)
          => ClientConfig.BASE = C4Template(env.JIRA_WORKSPACE_ID))
    /\ (Truthy(resolvedWorkspaceId)
          => ClientConfig.BASE = C4Template(resolvedWorkspaceId))
    /\ (~Truthy(resolvedWorkspaceId) => ClientConfig.BASE = cfg.baseUrl)

\* a discovered workspace id wins over a supplied base URL
C4_Witness ==
  /\ Configured
  /\ opts.baseUrl = AcmeBaseUrl
  /\ opts.workspaceId = Undef
  /\ resolvedWorkspaceId = S("W1")
  /\ ClientConfig.BASE = S("https://api.atlassian.com/jsm/insight/workspace/W1/v1")

\* C5: after a successful call the client's interceptor list is non-empty
\* exactly when the call had both an instance and a resolved workspace id.
C5_InterceptorsIffInstanceAndWorkspace ==
  Configured =>
    (ClientConfig.REQUEST_INTERCEPTORS # <<>>
       <=> (Truthy(cfg.instance) /\ Truthy(resolvedWorkspaceId)))

\* C6: a request through the interceptor is attempted at most twice, and a
\* second time only after the first attempt failed; when the original URL
\* starts with https://api.atlassian.com the second attempt goes to
\* https://<instance>.atlassian.net with the same path; a failure of the second
\* attempt is what the interceptor rejects with.
C6_FallbackRoundTrip ==
  /\ Len(req.attempts) <= 2
  /\ Len(req.outcomes) <= Len(req.attempts)
  /\ (Len(req.attempts) = 2 => req.outcomes[1] \in TransportErrors)
  /\ (Len(req.attempts) = 2 /\ MatchAt(ApiHost, req.originalUrl, 1)
        => req.attempts[2] =
             S("https://") \o cfg.instance \o S(".atlassian.net")
               \o SubSeq(req.originalUrl, Len(ApiHost) + 1, Len(req.originalUrl)))
  /\ (req.state = "rejected" => Len(req.outcomes) = 2 /\ req.error = req.outcomes[2])
  /\ (req.state = "resolved" => req.outcomes[Len(req.outcomes)] = "ok")

\* both attempts of a request to the workspace-scoped URL failed
C6_Witness ==
  /\ req.state = "rejected"
  /\ req.originalUrl = S("https://api.atlassian.com/jsm/insight/workspace/W9/v1/object/1")
  /\ req.attempts[2] = S("https://acme.atlassian.net/jsm/insight/workspace/W9/v1/object/1")
  /\ req.outcomes = <<"ECONNRESET", "HTTP404">>
  /\ req.error = "HTTP404"

\* C7: when the discovery response carries a non-empty `values`, the workspace
\* id the call goes on with is that of the first element.
C7_FirstWorkspaceWins ==
  [][(/\ pc = "discovering"
      /\ inflight.kind = "response"
      /\ inflight.hasValues
      /\ Len(inflight.values) > 0
      /\ pc' # "discovering")
       => resolvedWorkspaceId' = inflight.values[1].workspaceId]_vars

\* the call went on with a discovered W1 (no other source supplies W1)
C7_Witness ==
  /\ pc = "importing"
  /\ DiscoveryRequested
  /\ resolvedWorkspaceId = S("W1")

InstanceNotGiven ==
  PassedValidation /\ opts.instance = Undef /\ env.JIRA_INSTANCE = Undef

\* the host label that ends right before the first ".atlassian.net" of url
SubdomainBefore(url) ==
  LET k == IndexOf(url, AtlassianNet)
      starts == {i \in 1..k : \A j \in i..(k - 1) : url[j] \notin {".", "/", ":"}}
      i == CHOOSE x \in starts : \A y \in starts : x <= y
  IN  IF k = 0 \/ i = k THEN Undef ELSE SubSeq(url, i, k - 1)

\* C8 as stated: with no instance given, the resolved instance is the subdomain
\* segment right before ".atlassian.net" of the resolved baseUrl, and absent
\* when there is no such segment.
C8_InstanceIsSubdomain ==
  InstanceNotGiven => cfg.instance = SubdomainBefore(cfg.baseUrl)

\* "https://", then n >= 1 characters other than ".", then ".atlassian.net", at i
InstancePlace(url, i, n) ==
  /\ MatchAt(HttpsScheme, url, i)
  /\ n >= 1
  /\ \A k \in (i + 8)..(i + 7 + n) : k <= Len(url) /\ url[k] # "."
  /\ MatchAt(AtlassianNet, url, i + 8 + n)

InstancePlaces(url) ==
  {p \in (1..Len(url)) \X (1..Len(url)) : InstancePlace(url, p[1], p[2])}

\* C8 amended: with no instance given, the resolved instance is the dot-free
\* text standing directly between "https://" and ".atlassian.net" at the
\* leftmost such place of the resolved baseUrl, and absent when baseUrl has no
\* such place (another scheme, or more than one label before ".atlassian.net").
C8_InstanceFromHttpsLabel ==
  InstanceNotGiven =>
    LET places == InstancePlaces(cfg.baseUrl)
    IN  IF places = {} THEN cfg.instance = Undef
        ELSE \E p \in places :
               /\ \A q \in places : p[1] <= q[1]
               /\ cfg.instance = SubSeq(cfg.baseUrl, p[1] + 8, p[1] + 7 + p[2])

C8_Witness ==
  /\ InstanceNotGiven
  /\ cfg.baseUrl = S("https://acme.atlassian.net/rest/assets/1.0")
  /\ cfg.instance = S("acme")

\* C9: in a call that passed validation a discovery request has been issued
\* exactly when no workspace id came from the option or JIRA_WORKSPACE_ID and an
\* instance is present; this holds at every later point of the call.
C9_DiscoveryIffNoWorkspaceAndInstance ==
  PassedValidation =>
    (DiscoveryRequested
       <=> (/\ ~Supplied(opts.workspaceId, env.JIRA_WORKSPACE_ID)
            /\ Truthy(cfg.instance)))

\* a call with an instance and a workspace id went through without discovery
C9_Witness ==
  /\ pc = "ready"
  /\ Truthy(cfg.instance)
  /\ opts.workspaceId = S("W9")
  /\ ~DiscoveryRequested

WorkspaceNotProvided == opts.workspaceId = Undef /\ env.JIRA_WORKSPACE_ID = Undef

C11_DiscoveryThenConfigurationThenHandle ==
  /\ [][(heap' # heap /\ pc \notin {"ready", "failed"})
          => (pc = "importing" /\ inflight = NoResponse /\ pc' = "ready")]_vars
  /\ [][(pc = "ready" /\ pc' = "ready") => heap' = heap]_vars
  /\ [](Configured =>
          /\ ClientConfig.BASE \notin {Undef, GeneratedBase}
          /\ ClientConfig.WITH_CREDENTIALS
          /\ ClientConfig.CREDENTIALS # Undef
          /\ ClientConfig.HEADERS # NoHeaders
          /\ (Truthy(cfg.instance) /\ Truthy(resolvedWorkspaceId)
                => ClientConfig.REQUEST_INTERCEPTORS = <<Interceptor(cfg.instance)>>))

\* a call resolved after a successful discovery, with the interceptor in place
C11_Witness ==
  /\ Configured
  /\ DiscoveryRequested
  /\ ~warned
  /\ resolvedWorkspaceId = S("W2")
  /\ ClientConfig.WITH_CREDENTIALS
  /\ ClientConfig.REQUEST_INTERCEPTORS = <<Interceptor(S("acme"))>>

\* value is what the three-step rule gives: the option when it is given, else
\* the variable when it is set to a non-empty string, else the default (a
\* field without a literal default stays without a value)
ByPrecedence(option, variable, default, value) ==
  IF option # Undef THEN value = option
  ELSE IF Truthy(variable) THEN value = variable
  ELSE IF default = Undef THEN ~Truthy(value)
  ELSE value = default

C13_ImportFailureRejects ==
  pc = "ready" => client.module \in {"generated", "dist"}

\* C14: a call never resolves with a client that has no OpenAPI member, whose
\* configuration was therefore not done.
C14_MissingOpenAPIRejects ==
  pc = "ready" => client.hasOpenAPI

\* 'Basic ' + base64(email:apiToken) for the credentials that occur, as literals
BasicLiteral(email, apiToken) ==
  CASE email = S("a@b") /\ apiToken = S("tk") -> S("Basic YUBiOnRr")
    [] email = S("a@b") /\ apiToken = S("t0") -> S("Basic YUBiOnQw")
    [] email = S("b@a") /\ apiToken = S("tk") -> S("Basic YkBhOnRr")
    [] email = S("b@a") /\ apiToken = S("t0") -> S("Basic YkBhOnQw")

\* BASE, the three headers and the two credential flags as the call's resolved
\* values demand
PrePopulated ==
  /\ ClientConfig.BASE =
       IF Truthy(resolvedWorkspaceId)
       THEN S("https://api.atlassian.com/jsm/insight/workspace/")
              \o resolvedWorkspaceId \o S("/v1")
       ELSE cfg.baseUrl
  /\ ClientConfig.HEADERS.Authorization = BasicLiteral(cfg.email, cfg.apiToken)
  /\ ClientConfig.HEADERS.ContentType = S("application/json")
  /\ ClientConfig.HEADERS.Accept = S("application/json")
  /\ ClientConfig.WITH_CREDENTIALS
  /\ ClientConfig.CREDENTIALS = S("include")

\* C15: every resolved call hands out a client whose OpenAPI object carries the
\* base URL, the Basic Authorization header of the resolved credentials, the
\* JSON Content-Type and Accept headers and both credential flags.
C15_ConfigurationPrePopulated ==
  pc = "ready" => (client.hasOpenAPI /\ PrePopulated)

\* the same for the calls whose client has an OpenAPI member
PrePopulatedWhenOpenAPIPresent ==
  Configured => PrePopulated

\* C16: the configuration seen through a handle that a caller kept stays what
\* it was when the call resolved, whatever calls follow, and the handle of
\* each resolved call carries the values of its own options.
C16_CallsIndependent ==
  /\ (held.module # "none" => heap[held.module] = held.config)
  /\ (Configured => PrePopulated)

\* the discovery requests the call has issued
DiscoveryRequests == {k \in DOMAIN netLog : IsDiscoveryRequest(netLog[k])}

\* C17: a call issues at most one discovery GET, and exactly one once
\* discoverWorkspaceId has been invoked (no workspace id and an instance after
\* validation), whether the GET is pending, succeeded, answered without a
\* workspace, or failed in the transport.
C17_OneDiscoveryRequest ==
  /\ Cardinality(DiscoveryRequests) <= 1
  /\ (PassedValidation /\ ~Truthy(cfg.workspaceId) /\ Truthy(cfg.instance)
        => Cardinality(DiscoveryRequests) = 1)
  /\ (pc = "discovering" \/ warned => Cardinality(DiscoveryRequests) = 1)

\* discovery failed in the transport and the call went on to generate the
\* client, still with the one GET
C17_Witness ==
  /\ pc = "generating"
  /\ warned
  /\ caught = S("Failed to discover workspace ID: Network Error")
  /\ Cardinality(DiscoveryRequests) = 1

\* C18: when the discovery GET settles with a response without `values`, with
\* an empty `values`, or with a transport error, discoverWorkspaceId throws
\* (the caller catches a message); for a transport error the message caught
\* contains the transport's message.
C18_DiscoveryFailureCases ==
  [][(pc = "discovering" /\ inflight # NoResponse /\ pc' # "discovering") =>
       /\ (inflight.kind = "response" /\ ~inflight.hasValues => caught' # Undef)
       /\ (inflight.kind = "response" /\ inflight.hasValues /\ inflight.values = <<>>
             => caught' # Undef)
       /\ (inflight.kind = "error"
             => caught' # Undef /\ Includes(caught', inflight.message))]_vars

\* the message of an HTTP error reached the caller's catch
C18_Witness ==
  /\ warned
  /\ pc = "importing"
  /\ caught = S("Failed to discover workspace ID: Request failed with status code 401")

\* C19: a call resolves only when no step but discovery failed: the handle is
\* a loaded module with its configuration done and no error was raised; a
\* rejected call has an error and hands out no client.
C19_OnlyDiscoveryRecoverable ==
  /\ (pc = "ready" =>
        /\ error = "none"
        /\ client.module \in {"generated", "dist"}
        /\ client.hasOpenAPI)
  /\ (pc = "failed" => error # "none" /\ client = NoClient)

\* position of a state in the order Resolving, Discovering, Importing (with
\* the download and the generation it may start with), terminal
Rank(p) ==
  CASE p = "idle" -> 0
    [] p = "discovering" -> 1
    [] p = "downloading" -> 2
    [] p = "generating" -> 3
    [] p = "importing" -> 4
    [] p \in {"ready", "failed"} -> 5

\* C20: a call only moves forward through Resolving, Discovering, Importing
\* and Configuring, a settled call stays in its one terminal state until the
\* next call starts, and when every pending request, generator run and import
\* settles, every call that was started is eventually resolved or rejected.
C20_ForwardOnlyAndTerminates ==
  /\ [][pc' # pc =>
         \/ Rank(pc') > Rank(pc)
         \/ (pc \in {"ready", "failed"} /\ pc' = "idle")]_vars
  /\ ((pc # "idle") ~> (pc \in {"ready", "failed"}))

\* a call that went through discovery, download, generation and import
C20_Witness ==
  /\ pc = "ready"
  /\ DiscoveryRequested
  /\ Len(netLog) = 2
  /\ files.client
  /\ files.spec
  /\ ~warned

\* the step in which a call passes its regeneration decision: it leaves its
\* entry or the discovery for the download, the generator or the import
RegenerationDecided ==
  /\ pc \in {"idle", "discovering"}
  /\ pc' \in {"downloading", "generating", "importing"}

\* C21: a call goes for the generator (directly or through the download)
\* exactly when regenerate is true or outputDir holds no generated client; it
\* starts with the download exactly when, in addition, regenerate is true or
\* the spec file is absent; the generator is started nowhere else than at the
\* decision or after the download; with a cached client and regenerate false
\* the call goes straight to the import.
C21_RegenerationDecision ==
  /\ [][RegenerationDecided =>
          /\ (pc' # "importing" <=> (cfg'.regenerate \/ ~files.client))
          /\ (pc' = "downloading" <=>
                (/\ cfg'.regenerate \/ ~files.client
                 /\ cfg'.regenerate \/ ~files.spec))]_vars
  /\ [][(pc' = "generating" /\ pc # "generating")
          => (RegenerationDecided \/ pc = "downloading")]_vars

\* the same for the calls of src/index.ts
RegenerationDecisionOfIndex ==
  [][(variant = "index" /\ RegenerationDecided) =>
       /\ (pc' # "importing" <=> (cfg'.regenerate \/ ~files.client))
       /\ (pc' = "downloading" <=>
             (/\ cfg'.regenerate \/ ~files.client
              /\ cfg'.regenerate \/ ~files.spec))]_vars

\* C22: from the entry of a call to its resolution or rejection the caller's
\* options record and the destructured constants stay as they were at the
\* entry, and no step at all changes the environment; a discovered workspace
\* id lives in resolvedWorkspaceId only.
C22_ResolutionWithoutSideEffects ==
  /\ [][env' = env]_vars
  /\ [][(pc # "idle" /\ pc' # "idle") => (opts' = opts /\ cfg' = cfg)]_vars

\* a call resolved with a discovered workspace id that neither the options
\* nor the environment carry
C22_Witness ==
  /\ pc = "ready"
  /\ resolvedWorkspaceId = S("W2")
  /\ opts.workspaceId = Undef
  /\ cfg.workspaceId = Undef
  /\ env.JIRA_WORKSPACE_ID = Undef

\* s with its first n characters removed
Drop(s, n) == SubSeq(s, n + 1, Len(s))

C24_ImportedModuleUntouched ==
  [][heap'["dist"] = heap["dist"]]_vars

\* the text of p after its last "/"
LastSegment(p) ==
  LET slashes == {k \in 1..Len(p) : p[k] = "/"}
      last == IF slashes = {} THEN 0
              ELSE CHOOSE k \in slashes : \A j \in slashes : j <= k
  IN  SubSeq(p, last + 1, Len(p))

\* p names a file with an extension: a "." inside its last segment, with text
\* on both sides
HasFileExtension(p) ==
  LET seg == LastSegment(p)
  IN  \E k \in 2..(Len(seg) - 1) : seg[k] = "."

ExtensionlessRelative(p) == p[1] = "." /\ ~HasFileExtension(p)

\* the clause after one run, as the claim has it
FixedClause(st) ==
  IF ExtensionlessRelative(st.path)
  THEN S("from '") \o st.path \o S(".js';")
  ELSE S("from ") \o <<st.quote>> \o st.path \o <<st.quote>> \o S(";")

RECURSIVE FixedClauses(_)
FixedClauses(sts) ==
  IF sts = <<>> THEN <<>> ELSE FixedClause(Head(sts)) \o FixedClauses(Tail(sts))

\* what the claim says of a tree after one run and after a second one
FixedOnceAndForAll ==
  /\ (tree.runs = 1 =>
        /\ tree.model = FixedClauses(tree.source.model)
        /\ (tree.service # Undef =>
              tree.service =
                (IF tree.source.asc
                 THEN S("asc = true // Default to true instead of ")
                        \o S("\"Uses the Jira setting for sort order\"")
                 ELSE <<>>) \o FixedClauses(tree.source.service))
        /\ ("model" \in tree.esmWrote =>
              \E k \in DOMAIN tree.source.model :
                ExtensionlessRelative(tree.source.model[k].path))
        /\ ("service" \in tree.esmWrote =>
              \E k \in DOMAIN tree.source.service :
                ExtensionlessRelative(tree.source.service[k].path)))
  /\ (tree.runs >= 2 =>
        /\ tree.service = tree.previous.service
        /\ tree.model = tree.previous.model
        /\ tree.esmWrote = {})

\* C25: one run of fixGeneratedCode appends ".js" to exactly the relative
\* import paths without a file extension and rewrites the faulty asc default;
\* the ESM pass writes no file that has no such import; a second run changes
\* no content and writes nothing in the ESM pass.
C25_FixIdempotentAndMinimal == FixedOnceAndForAll

\* the paths of files: a last segment that is neither empty nor a lone "."
NamesFile(p) == LastSegment(p) \notin {<<>>, <<".">>}

\* the same for sources all of whose relative import paths name a file
FixedOnceAndForAllOnFilePaths ==
  (/\ \A k \in DOMAIN tree.source.model : NamesFile(tree.source.model[k].path)
   /\ \A k \in DOMAIN tree.source.service : NamesFile(tree.source.service[k].path))
    => FixedOnceAndForAll

\* the steps of the running build in the script's order, none after a failed one
StepsInOrder ==
  /\ Len(build.steps) <= Len(BuildSteps)
  /\ \A k \in DOMAIN build.steps :
       /\ build.steps[k].step = BuildSteps[k]
       /\ (k < Len(build.steps) => build.steps[k].outcome = "ok")

StepFailed == \E k \in DOMAIN build.steps : build.steps[k].outcome # "ok"

CompileStepOver == \E k \in DOMAIN build.steps : build.steps[k].step = "compile"

\* C26: prebuild runs download, generation and compilation in that order and
\* skips every later step once one fails; tsconfig.generated.json is absent
\* after the compile step, whether it succeeded or failed; any failure ends the
\* process with exit code 1; success is reported only after all three steps
\* succeeded.
C26_PrebuildOrderCleanupExit ==
  /\ StepsInOrder
  /\ (CompileStepOver => ~build.tsconfig)
  /\ (StepFailed => (build.pc = "exited" /\ build.exitCode = 1))
  /\ (build.reported =>
        /\ Len(build.steps) = Len(BuildSteps)
        /\ ~StepFailed
        /\ build.exitCode = 0)

\* a second run, in a directory with a stale tsconfig.generated.json behind
\* it, whose compilation failed
C26_Witness ==
  /\ build.run = 2
  /\ build.pc = "exited"
  /\ CompileStepOver
  /\ StepFailed
  /\ ~build.tsconfig
  /\ build.exitCode = 1

\* C27: whenever the interceptor retries a failed request, the URL of the
\* retry differs from the original URL, also for a URL that contains
\* api.atlassian.com without the https://api.atlassian.com prefix and for a
\* URL on a host other than the two known ones.
C27_RetryUrlDiffers ==
  Len(req.attempts) = 2 => req.attempts[2] # req.originalUrl

\* the same for the original URLs that start with one of the two known hosts
RetryUrlDiffersOnKnownHosts ==
  (/\ Len(req.attempts) = 2
   /\ \/ MatchAt(S("https://api.atlassian.com"), req.originalUrl, 1)
      \/ MatchAt(S("https://") \o req.instance \o S(".atlassian.net"),
                 req.originalUrl, 1))
    => req.attempts[2] # req.originalUrl

\* the discovery step of the running call returned: nothing was caught
DiscoveryReturned == DiscoveryRequested /\ ~warned

\* C28: whenever the discovery step completes without raising, the resolved
\* workspace id is a non-empty string, and the client is then configured with
\* the workspace-scoped base URL; also when the first element of `values` has
\* no workspaceId attribute.
C28_DiscoveredIdIsUsable ==
  /\ [][(pc = "discovering" /\ inflight # NoResponse /\ pc' # "discovering"
           /\ ~warned')
         => (resolvedWorkspaceId' # Undef /\ resolvedWorkspaceId' # <<>>)]_vars
  /\ []((Configured /\ DiscoveryReturned)
         => (/\ resolvedWorkspaceId # Undef
             /\ ClientConfig.BASE = WorkspaceBase(resolvedWorkspaceId)))

\* the same for responses whose first element carries a workspaceId
DiscoveredIdIsUsableWhenPresent ==
  /\ [][(pc = "discovering" /\ inflight # NoResponse /\ pc' # "discovering"
           /\ ~warned' /\ inflight.values[1].workspaceId # Undef)
         => (resolvedWorkspaceId' # Undef /\ resolvedWorkspaceId' # <<>>)]_vars
  /\ []((Configured /\ DiscoveryReturned /\ resolvedWorkspaceId # Undef)
         => ClientConfig.BASE = WorkspaceBase(resolvedWorkspaceId))

\* the configured base URL is the workspace-scoped one of a non-empty
\* workspace id, or the resolved baseUrl, which is not empty
BaseIsUsable ==
  /\ ClientConfig.BASE \notin {Undef, <<>>}
  /\ \/ /\ resolvedWorkspaceId \notin {Undef, <<>>}
        /\ ClientConfig.BASE = WorkspaceBase(resolvedWorkspaceId)
     \/ /\ cfg.baseUrl \notin {Undef, <<>>}
        /\ ClientConfig.BASE = cfg.baseUrl

\* C29: after every successful call the configured base URL is a non-empty
\* string, the workspace-scoped URL with a non-empty workspace id or a
\* non-empty resolved baseUrl, for every options record, one with baseUrl ""
\* included.
C29_BaseNeverEmpty == Configured => BaseIsUsable

\* the same for the calls whose options do not carry baseUrl ""
BaseNeverEmptyUnlessOptionEmpty ==
  (Configured /\ opts.baseUrl # <<>>) => BaseIsUsable

====
